---- MODULE Spec2Model ----
(***************************************************************************)
(* Model of the IPC authorisation protocol of sn_api / sn_cli:             *)
(*   - the wire codec (ipc/mod.rs: encode_msg, decode_msg, gen_req_id),    *)
(*   - the response classifier (app/helpers.rs),                           *)
(*   - the orchestrator Safe::auth_app (app/auth.rs),                      *)
(*   - the CLI credential file handling (sn_cli auth_and_connect.rs).      *)
(*                                                                         *)
(* Three specifications share the variables: Spec (codec, classifier and   *)
(* request builder), SpecAuth (concurrent auth_app calls against a         *)
(* transport) and SpecCli (the CLI commands over the credentials file).    *)
(***************************************************************************)
EXTENDS Integers, Sequences, FiniteSets, TLC

VARIABLES
    \* --- codec / classifier / builder (Spec) ---
    phase,      \* "idle" | "have" | "encoded" | "input" | "decoded" | "classified"
    msg,        \* the IpcMsg at hand (NoMsg before there is one)
    built,      \* TRUE iff msg was made by new_auth_req
    rnd,        \* the value the random source returned to gen_req_id
    text,       \* the string handed to decode_msg
    inputKind,  \* "none" | "encoded" | "truncated" | "reprefixed" | "garbage"
    result,     \* the Result decode_msg returned
    outcome,    \* the Result decode_auth_response_ipc_msg returned
    \* --- auth_app (SpecAuth) ---
    calls,      \* per call of auth_app: its position and locals
    \* --- CLI (SpecCli) ---
    file,       \* contents of ~/.safe/cli/credentials (Absent when missing)
    cliPc,      \* "idle" | "awaiting" (authorise_cli suspended in auth_app)
    lastDone    \* the command that returned last, with what it returned

vars == <<phase, msg, built, rnd, text, inputKind, result, outcome,
          calls, file, cliPc, lastDone>>
codecVars == <<phase, msg, built, rnd, text, inputKind, result, outcome>>
cliVars == <<file, cliPc, lastDone>>

-----------------------------------------------------------------------------
(* Bounds of the model. *)

\* longest String (in UTF-8 bytes) a generated message carries
MaxStrLen == 2
\* most socket addresses in a generated BootstrapConfig
MaxAddrs == 2

-----------------------------------------------------------------------------
(* Result<T, E> and Option<T> *)

Ok(v) == [ok |-> TRUE, val |-> v]
Fail(e) == [ok |-> FALSE, err |-> e]
None == [none |-> TRUE]
Some(v) == [some |-> v]

-----------------------------------------------------------------------------
(* u32: TLC's integers are 32-bit signed, so a u32 is kept as its two      *)
(* 16-bit halves.                                                          *)

U32(hi, lo) == [hi |-> hi, lo |-> lo]
u32_zero == U32(0, 0)
u32_max_value == U32(65535, 65535)
U32Lt(a, b) == a.hi < b.hi \/ (a.hi = b.hi /\ a.lo < b.lo)
\* a + 1 in 32 unsigned bits (wraps to 0 after u32::MAX)
U32Add1(a) ==
    IF a.lo < 65535 THEN U32(a.hi, a.lo + 1)
    ELSE IF a.hi < 65535 THEN U32(a.hi + 1, 0)
    ELSE u32_zero

\* values the random source is sampled at (both ends of the u32 range)
RandCandidates ==
    {u32_zero, U32(258, 771), U32(65535, 65534), u32_max_value}

\* Rng::gen_range(low, high): uniform over the half-open range [low, high)
gen_range_inclusive(low, high) ==
    {r \in RandCandidates : ~U32Lt(r, low) /\ ~U32Lt(high, r)}
gen_range(low, high) ==
    {r \in RandCandidates : ~U32Lt(r, low) /\ U32Lt(r, high)}

\* gen_req_id with r the value gen_range(0, u32::max_value()) returned
gen_req_id(r) == U32Add1(r)

-----------------------------------------------------------------------------
(* The message model.  A String is its sequence of UTF-8 bytes.            *)

IpcErrorTags ==
    <<"AuthDenied", "InvalidMsg", "EncodeDecodeError", "AlreadyAuthorised",
      "UnknownApp", "Unexpected">>
IpcError(tag) == [tag |-> tag]
Unexpected(detail) == [tag |-> "Unexpected", detail |-> detail]
InvalidMsg == IpcError("InvalidMsg")
EncodeDecodeError == IpcError("EncodeDecodeError")

AuthReq(app_id, app_name, app_vendor) ==
    [app_id |-> app_id, app_name |-> app_name, app_vendor |-> app_vendor]
IpcReqAuth(auth_req) == [kind |-> "Auth", auth_req |-> auth_req]
AuthGranted(app_keys, bootstrap_config) ==
    [app_keys |-> app_keys, bootstrap_config |-> bootstrap_config]
IpcRespAuth(res) == [kind |-> "Auth", res |-> res]
IpcRespUnregistered(res) == [kind |-> "Unregistered", res |-> res]

Req(req_id, request) == [type |-> "Req", req_id |-> req_id, request |-> request]
Resp(req_id, response) ==
    [type |-> "Resp", req_id |-> req_id, response |-> response]
Revoked(app_id) == [type |-> "Revoked", app_id |-> app_id]
Err(e) == [type |-> "Err", error |-> e]
NoMsg == [type |-> "none"]

SocketAddrV4(ip, port) == [v |-> 4, ip |-> ip, port |-> port]
SocketAddrV6(ip, port) == [v |-> 6, ip |-> ip, port |-> port]

\* IpcMsg::new_auth_req with r the random value gen_req_id draws
new_auth_req(r, app_id, app_name, app_vendor) ==
    Req(gen_req_id(r), IpcReqAuth(AuthReq(app_id, app_name, app_vendor)))

-----------------------------------------------------------------------------
(* UTF-8 validity of a byte sequence (String::from_utf8).                  *)

IsCont(b) == b >= 128 /\ b <= 191

RECURSIVE ValidUtf8(_)
ValidUtf8(bs) ==
    IF bs = <<>> THEN TRUE
    ELSE LET b == bs[1]
             n == Len(bs)
         IN IF b < 128 THEN ValidUtf8(Tail(bs))
            ELSE IF b >= 194 /\ b <= 223
            THEN n >= 2 /\ IsCont(bs[2]) /\ ValidUtf8(SubSeq(bs, 3, n))
            ELSE IF b >= 224 /\ b <= 239
            THEN /\ n >= 3
                 /\ IsCont(bs[2]) /\ IsCont(bs[3])
                 /\ (b = 224 => bs[2] >= 160)
                 /\ (b = 237 => bs[2] <= 159)
                 /\ ValidUtf8(SubSeq(bs, 4, n))
            ELSE IF b >= 240 /\ b <= 244
            THEN /\ n >= 4
                 /\ IsCont(bs[2]) /\ IsCont(bs[3]) /\ IsCont(bs[4])
                 /\ (b = 240 => bs[2] >= 144)
                 /\ (b = 244 => bs[2] <= 143)
                 /\ ValidUtf8(SubSeq(bs, 5, n))
            ELSE FALSE

-----------------------------------------------------------------------------
(* bincode::serialize: fixed-width little-endian integers, u32 variant     *)
(* indices, u64 length prefixes.                                           *)

U16LE(n) == <<n % 256, n \div 256>>
SerU32(v) == U16LE(v.lo) \o U16LE(v.hi)
SerVariant(i) == <<i, 0, 0, 0>>
SerLen(n) ==
    <<n % 256, (n \div 256) % 256, (n \div 65536) % 256, n \div 16777216,
      0, 0, 0, 0>>
SerString(s) == SerLen(Len(s)) \o s
SerBytes(bs) == SerLen(Len(bs)) \o bs

TagIndex(tag) == CHOOSE i \in 0..5 : IpcErrorTags[i + 1] = tag
SerIpcError(e) ==
    IF e.tag = "Unexpected"
    THEN SerVariant(5) \o SerString(e.detail)
    ELSE SerVariant(TagIndex(e.tag))

SerSocketAddr(a) ==
    IF a.v = 4
    THEN SerVariant(0) \o a.ip \o U16LE(a.port)
    ELSE SerVariant(1) \o a.ip \o U16LE(a.port)

RECURSIVE SerAddrs(_)
SerAddrs(order) ==
    IF order = <<>> THEN <<>>
    ELSE SerSocketAddr(order[1]) \o SerAddrs(Tail(order))
\* a HashSet is written as its length and its elements in iteration order
SerBootstrapConfig(order) == SerLen(Len(order)) \o SerAddrs(order)

SerAuthReq(r) ==
    SerString(r.app_id) \o SerString(r.app_name) \o SerString(r.app_vendor)
SerIpcReq(q) == SerVariant(0) \o SerAuthReq(q.auth_req)
SerAuthGranted(g, order) == SerBytes(g.app_keys) \o SerBootstrapConfig(order)
SerIpcResp(p, order) ==
    IF p.kind = "Auth"
    THEN SerVariant(0) \o
         (IF p.res.ok THEN SerVariant(0) \o SerAuthGranted(p.res.val, order)
          ELSE SerVariant(1) \o SerIpcError(p.res.err))
    ELSE SerVariant(1) \o
         (IF p.res.ok THEN SerVariant(0) \o SerBootstrapConfig(order)
          ELSE SerVariant(1) \o SerIpcError(p.res.err))

\* serialize(&msg); `order` is the iteration order of the message's HashSet
serialize(m, order) ==
    CASE m.type = "Req" -> SerVariant(0) \o SerU32(m.req_id) \o SerIpcReq(m.request)
      [] m.type = "Resp" ->
            SerVariant(1) \o SerU32(m.req_id) \o SerIpcResp(m.response, order)
      [] m.type = "Revoked" -> SerVariant(2) \o SerString(m.app_id)
      [] m.type = "Err" -> SerVariant(3) \o SerIpcError(m.error)

\* the HashSet<SocketAddr> a message carries (empty when it carries none)
ConfigOf(m) ==
    IF m.type = "Resp" /\ m.response.res.ok
    THEN IF m.response.kind = "Auth"
         THEN m.response.res.val.bootstrap_config
         ELSE m.response.res.val
    ELSE {}
\* the orders a HashSet may be iterated in
Orders(S) ==
    {o \in [1..Cardinality(S) -> S] : \A i, j \in 1..Cardinality(S) :
                                         i # j => o[i] # o[j]}

-----------------------------------------------------------------------------
(* bincode::deserialize over a byte slice.  A reader returns the value and *)
(* the bytes left, or Eof/invalid as NoParse; trailing bytes are allowed.  *)

NoParse == [ok |-> FALSE]
Got(v, rest) == [ok |-> TRUE, val |-> v, rest |-> rest]
Drop(bs, n) == SubSeq(bs, n + 1, Len(bs))
Min(a, b) == IF a < b THEN a ELSE b

ReadU32(bs) ==
    IF Len(bs) < 4 THEN NoParse
    ELSE Got(U32(bs[3] + 256 * bs[4], bs[1] + 256 * bs[2]), Drop(bs, 4))
\* a u32 variant index; every index above 255 is read as 256 (no enum of
\* the protocol has that many variants)
ReadVariant(bs) ==
    IF Len(bs) < 4 THEN NoParse
    ELSE Got(IF bs[2] = 0 /\ bs[3] = 0 /\ bs[4] = 0 THEN bs[1] ELSE 256,
             Drop(bs, 4))
\* a u64 length; bincode only compares it with the bytes left, so a
\* length beyond them is read as (bytes left + 1)
ReadLen(bs) ==
    IF Len(bs) < 8 THEN NoParse
    ELSE Got(IF bs[4] >= 128 \/ bs[5] # 0 \/ bs[6] # 0 \/ bs[7] # 0
                \/ bs[8] # 0
             THEN Len(bs) - 7
             ELSE Min(bs[1] + 256 * bs[2] + 65536 * bs[3] + 16777216 * bs[4],
                      Len(bs) - 7),
             Drop(bs, 8))
ReadBytesOf(l) ==
    IF ~l.ok THEN NoParse
    ELSE IF l.val > Len(l.rest) THEN NoParse
    ELSE Got(SubSeq(l.rest, 1, l.val), Drop(l.rest, l.val))
ReadBytes(bs) == ReadBytesOf(ReadLen(bs))
ReadStringOf(b) ==
    IF ~b.ok THEN NoParse ELSE IF ~ValidUtf8(b.val) THEN NoParse ELSE b
ReadString(bs) == ReadStringOf(ReadBytes(bs))

GotUnexpected(s) == IF ~s.ok THEN NoParse ELSE Got(Unexpected(s.val), s.rest)
ReadIpcErrorOf(t) ==
    IF ~t.ok THEN NoParse
    ELSE IF t.val < 5 THEN Got(IpcError(IpcErrorTags[t.val + 1]), t.rest)
    ELSE IF t.val = 5 THEN GotUnexpected(ReadString(t.rest))
    ELSE NoParse
ReadIpcError(bs) == ReadIpcErrorOf(ReadVariant(bs))

ReadSocketAddrOf(t) ==
    IF ~t.ok THEN NoParse
    ELSE IF t.val = 0
    THEN IF Len(t.rest) < 6 THEN NoParse
         ELSE Got(SocketAddrV4(SubSeq(t.rest, 1, 4),
                               t.rest[5] + 256 * t.rest[6]),
                  Drop(t.rest, 6))
    ELSE IF t.val = 1
    THEN IF Len(t.rest) < 18 THEN NoParse
         ELSE Got(SocketAddrV6(SubSeq(t.rest, 1, 16),
                               t.rest[17] + 256 * t.rest[18]),
                  Drop(t.rest, 18))
    ELSE NoParse
ReadSocketAddr(bs) == ReadSocketAddrOf(ReadVariant(bs))

\* n more elements of a HashSet, inserted into acc
RECURSIVE ReadAddrs(_, _, _)
ReadAddrsOf(a, n, acc) ==
    IF ~a.ok THEN NoParse ELSE ReadAddrs(a.rest, n - 1, acc \cup {a.val})
ReadAddrs(bs, n, acc) ==
    IF n = 0 THEN Got(acc, bs) ELSE ReadAddrsOf(ReadSocketAddr(bs), n, acc)
ReadBootstrapConfigOf(l) ==
    IF ~l.ok THEN NoParse ELSE ReadAddrs(l.rest, l.val, {})
ReadBootstrapConfig(bs) == ReadBootstrapConfigOf(ReadLen(bs))

ReadAuthReq3(a, b, c) ==
    IF ~c.ok THEN NoParse ELSE Got(AuthReq(a.val, b.val, c.val), c.rest)
ReadAuthReq2(a, b) ==
    IF ~b.ok THEN NoParse ELSE ReadAuthReq3(a, b, ReadString(b.rest))
ReadAuthReq1(a) ==
    IF ~a.ok THEN NoParse ELSE ReadAuthReq2(a, ReadString(a.rest))
ReadAuthReq(bs) == ReadAuthReq1(ReadString(bs))
GotIpcReqAuth(r) == IF ~r.ok THEN NoParse ELSE Got(IpcReqAuth(r.val), r.rest)
ReadIpcReqOf(t) ==
    IF ~t.ok THEN NoParse
    ELSE IF t.val = 0 THEN GotIpcReqAuth(ReadAuthReq(t.rest))
    ELSE NoParse
ReadIpcReq(bs) == ReadIpcReqOf(ReadVariant(bs))

ReadAuthGranted2(k, c) ==
    IF ~c.ok THEN NoParse ELSE Got(AuthGranted(k.val, c.val), c.rest)
ReadAuthGranted1(k) ==
    IF ~k.ok THEN NoParse ELSE ReadAuthGranted2(k, ReadBootstrapConfig(k.rest))
ReadAuthGranted(bs) == ReadAuthGranted1(ReadBytes(bs))

GotOk(v) == IF ~v.ok THEN NoParse ELSE Got(Ok(v.val), v.rest)
GotFail(e) == IF ~e.ok THEN NoParse ELSE Got(Fail(e.val), e.rest)
\* Result<T, IpcError>, T read by kind
ReadResultOf(t, kind) ==
    IF ~t.ok THEN NoParse
    ELSE IF t.val = 0
    THEN GotOk(IF kind = "Auth" THEN ReadAuthGranted(t.rest)
               ELSE ReadBootstrapConfig(t.rest))
    ELSE IF t.val = 1 THEN GotFail(ReadIpcError(t.rest))
    ELSE NoParse
ReadResult(bs, kind) == ReadResultOf(ReadVariant(bs), kind)
GotIpcRespAuth(r) == IF ~r.ok THEN NoParse ELSE Got(IpcRespAuth(r.val), r.rest)
GotIpcRespUnregistered(r) ==
    IF ~r.ok THEN NoParse ELSE Got(IpcRespUnregistered(r.val), r.rest)
ReadIpcRespOf(t) ==
    IF ~t.ok THEN NoParse
    ELSE IF t.val = 0 THEN GotIpcRespAuth(ReadResult(t.rest, "Auth"))
    ELSE IF t.val = 1
    THEN GotIpcRespUnregistered(ReadResult(t.rest, "Unregistered"))
    ELSE NoParse
ReadIpcResp(bs) == ReadIpcRespOf(ReadVariant(bs))

ReadReq2(i, q) == IF ~q.ok THEN NoParse ELSE Got(Req(i.val, q.val), q.rest)
ReadReq1(i) == IF ~i.ok THEN NoParse ELSE ReadReq2(i, ReadIpcReq(i.rest))
ReadResp2(i, p) == IF ~p.ok THEN NoParse ELSE Got(Resp(i.val, p.val), p.rest)
ReadResp1(i) == IF ~i.ok THEN NoParse ELSE ReadResp2(i, ReadIpcResp(i.rest))
GotRevoked(s) == IF ~s.ok THEN NoParse ELSE Got(Revoked(s.val), s.rest)
GotErr(e) == IF ~e.ok THEN NoParse ELSE Got(Err(e.val), e.rest)
ReadIpcMsgOf(t) ==
    IF ~t.ok THEN NoParse
    ELSE IF t.val = 0 THEN ReadReq1(ReadU32(t.rest))
    ELSE IF t.val = 1 THEN ReadResp1(ReadU32(t.rest))
    ELSE IF t.val = 2 THEN GotRevoked(ReadString(t.rest))
    ELSE IF t.val = 3 THEN GotErr(ReadIpcError(t.rest))
    ELSE NoParse
ReadIpcMsg(bs) == ReadIpcMsgOf(ReadVariant(bs))

\* deserialize(&decoded): Ok(msg), or the bincode error
DeserializeOf(r) == IF r.ok THEN Ok(r.val) ELSE Fail("bincode::Error")
deserialize(bs) == DeserializeOf(ReadIpcMsg(bs))

-----------------------------------------------------------------------------
(* data_encoding::BASE32_NOPAD: RFC 4648 upper-case alphabet, most         *)
(* significant bit first, no padding, trailing bits checked.  A string is  *)
(* its sequence of characters.                                             *)

Base32Alphabet ==
    <<"A", "B", "C", "D", "E", "F", "G", "H", "I", "J", "K", "L", "M", "N",
      "O", "P", "Q", "R", "S", "T", "U", "V", "W", "X", "Y", "Z",
      "2", "3", "4", "5", "6", "7">>
Base32Symbols == {Base32Alphabet[i] : i \in 1..32}
SymbolValue(c) == CHOOSE i \in 0..31 : Base32Alphabet[i + 1] = c
Pow2 == <<1, 2, 4, 8, 16, 32, 64, 128>>

\* bit i (from 0, most significant first) of a byte string; 0 past its end
ByteBit(bytes, i) ==
    IF i < 8 * Len(bytes)
    THEN (bytes[(i \div 8) + 1] \div Pow2[8 - (i % 8)]) % 2
    ELSE 0
\* the k-th symbol (from 1) of the encoding
Base32Symbol(bytes, k) ==
    Base32Alphabet[1 + 16 * ByteBit(bytes, 5 * k - 5)
                     + 8 * ByteBit(bytes, 5 * k - 4)
                     + 4 * ByteBit(bytes, 5 * k - 3)
                     + 2 * ByteBit(bytes, 5 * k - 2)
                     + ByteBit(bytes, 5 * k - 1)]
Base32Encode(bytes) ==
    [k \in 1..((8 * Len(bytes) + 4) \div 5) |-> Base32Symbol(bytes, k)]

\* bit i of the 5-bit values of a symbol string
SymBit(chars, i) ==
    (SymbolValue(chars[(i \div 5) + 1]) \div Pow2[5 - (i % 5)]) % 2
\* the k-th byte (from 1) of the decoding
Base32Byte(chars, k) ==
    128 * SymBit(chars, 8 * k - 8) + 64 * SymBit(chars, 8 * k - 7)
    + 32 * SymBit(chars, 8 * k - 6) + 16 * SymBit(chars, 8 * k - 5)
    + 8 * SymBit(chars, 8 * k - 4) + 4 * SymBit(chars, 8 * k - 3)
    + 2 * SymBit(chars, 8 * k - 2) + SymBit(chars, 8 * k - 1)
Base32Decode(chars) ==
    IF (Len(chars) % 8) \in {1, 3, 6} THEN Fail("DecodeError::Length")
    ELSE IF \E i \in 1..Len(chars) : chars[i] \notin Base32Symbols
    THEN Fail("DecodeError::Symbol")
    ELSE IF \E i \in (8 * ((5 * Len(chars)) \div 8))..(5 * Len(chars) - 1) :
               SymBit(chars, i) # 0
    THEN Fail("DecodeError::Trailing")
    ELSE Ok([k \in 1..((5 * Len(chars)) \div 8) |-> Base32Byte(chars, k)])

-----------------------------------------------------------------------------
(* The `?` conversions of decode_msg into IpcError.                        *)

FromDecodeError(e) == EncodeDecodeError
FromBincodeError(e) == EncodeDecodeError

-----------------------------------------------------------------------------
(* ipc/mod.rs *)

\* encode_msg without the multicodec prefix
encode_msg_no_prefix(m, order) == Base32Encode(serialize(m, order))
\* encode_msg: "b" followed by the base32 of the bincode of msg
encode_msg(m, order) == <<"b">> \o Base32Encode(serialize(m, order))

\* the `?` on the bincode result, then Ok(msg)
DecodedMsg(m) == IF ~m.ok THEN Fail(FromBincodeError(m.err)) ELSE Ok(m.val)
\* the `?` on the base32 result, then deserialize
DecodedPayload(decoded) ==
    IF ~decoded.ok THEN Fail(FromDecodeError(decoded.err))
    ELSE DecodedMsg(deserialize(decoded.val))

\* decode_msg that looks for the prefix only in lower case
decode_msg_lower_only(encoded) ==
    IF encoded = <<>> THEN Fail(InvalidMsg)
    ELSE IF encoded[1] = "b" THEN DecodedPayload(Base32Decode(Tail(encoded)))
    ELSE Fail(EncodeDecodeError)
\* decode_msg that reports the empty input like any other bad input
decode_msg_empty_as_codec_error(encoded) ==
    IF encoded = <<>> THEN Fail(EncodeDecodeError)
    ELSE IF encoded[1] \in {"b", "B"}
    THEN DecodedPayload(Base32Decode(Tail(encoded)))
    ELSE Fail(EncodeDecodeError)
\* decode_msg that answers an input it cannot read with an Err message
decode_msg_error_as_msg(encoded) ==
    IF encoded = <<>> THEN Fail(InvalidMsg)
    ELSE IF encoded[1] \in {"b", "B"}
    THEN IF DecodedPayload(Base32Decode(Tail(encoded))).ok
         THEN DecodedPayload(Base32Decode(Tail(encoded)))
         ELSE Ok(Err(EncodeDecodeError))
    ELSE Fail(EncodeDecodeError)
\* decode_msg
decode_msg(encoded) ==
    IF encoded = <<>> THEN Fail(InvalidMsg)
    ELSE IF encoded[1] \in {"b", "B"}
    THEN DecodedPayload(Base32Decode(Tail(encoded)))
    ELSE Fail(EncodeDecodeError)

-----------------------------------------------------------------------------
(* app/helpers.rs: the match of decode_auth_response_ipc_msg on the        *)
(* decoded message.  Dbg(x) is the {:?} rendering of x.                    *)

Dbg(x) == [debug |-> x]
Registered(g) == [type |-> "Registered", granted |-> g]
Unregistered(c) == [type |-> "Unregistered", config |-> c]
AuthError(detail) == [error |-> "AuthError", detail |-> detail]
\* the error send_authd_request returns
TransportError == [error |-> "TransportError"]

\* a classifier that takes every Ok payload for a full grant
decode_auth_response_ipc_msg_any_ok(m) ==
    IF m.type = "Resp" /\ m.response.res.ok
    THEN Ok(Registered(m.response.res.val))
    ELSE IF m.type = "Resp"
    THEN Fail(AuthError(Dbg(m.response.res.err)))
    ELSE Fail(AuthError(Dbg(m)))
decode_auth_response_ipc_msg(m) ==
    IF m.type = "Resp" /\ m.response.kind = "Auth" /\ m.response.res.ok
    THEN Ok(Registered(m.response.res.val))
    ELSE IF m.type = "Resp" /\ m.response.kind = "Auth"
    THEN Fail(AuthError(Dbg(m.response.res.err)))
    ELSE IF m.type = "Resp" /\ m.response.kind = "Unregistered"
            /\ m.response.res.ok
    THEN Ok(Unregistered(m.response.res.val))
    ELSE IF m.type = "Resp" /\ m.response.kind = "Unregistered"
    THEN Fail(AuthError(Dbg(m.response.res.err)))
    ELSE Fail(AuthError(Dbg(m)))

-----------------------------------------------------------------------------
(* app/auth.rs: Safe::auth_app.  It suspends once, in send_app_auth_req;   *)
(* a call record holds its locals and counts what it did.                  *)

IdleCall ==
    [pc |-> "idle", request |-> None, auth_req_str |-> <<>>,
     transport |-> None, ret |-> None,
     sends |-> 0, decodes |-> 0]

\* IpcMsg::to_string and IpcMsg::from_string (a Req carries no HashSet)
to_string(m) == encode_msg(m, <<>>)
from_string(s) == decode_msg(s)

\* lines 35-43: build the request, encode it, call send_app_auth_req
auth_app_send(call, r, app_id, app_name, app_vendor) ==
    [call EXCEPT
        !.pc = "awaiting",
        !.request = new_auth_req(r, app_id, app_name, app_vendor),
        !.auth_req_str =
            to_string(new_auth_req(r, app_id, app_name, app_vendor)),
        !.sends = @ + 1]

\* lines 46-65: the match on IpcMsg::from_string(&auth_res)
AuthAppMatched(auth_res, d) ==
    IF d.ok /\ d.val.type = "Resp" THEN Ok(auth_res)
    ELSE IF d.ok THEN Fail(AuthError(<<"unexpected response", Dbg(d.val)>>))
    ELSE Fail(AuthError(<<"not authorised", Dbg(d.err)>>))
auth_app_match(auth_res) == AuthAppMatched(auth_res, from_string(auth_res))

\* auth_app that sends the request again when the transport failed
auth_app_resume_retry(call) ==
    IF ~call.transport.ok
    THEN [call EXCEPT !.pc = "awaiting", !.transport = None,
                      !.sends = @ + 1]
    ELSE [call EXCEPT !.pc = "done", !.decodes = @ + 1,
                      !.ret = auth_app_match(call.transport.val)]
\* lines 43-65: the `?` on the transport's answer, then the match
auth_app_resume(call) ==
    IF ~call.transport.ok
    THEN [call EXCEPT !.pc = "done", !.ret = Fail(call.transport.err)]
    ELSE [call EXCEPT !.pc = "done", !.decodes = @ + 1,
                      !.ret = auth_app_match(call.transport.val)]

\* auth_app as one function of what the transport answers
auth_app_result(transport) ==
    IF ~transport.ok THEN Fail(transport.err)
    ELSE auth_app_match(transport.val)

-----------------------------------------------------------------------------
(* sn_cli auth_and_connect.rs *)

\* the credentials file: missing, or present with its text
Absent == [exists |-> FALSE, content |-> <<>>]
FileWith(t) == [exists |-> TRUE, content |-> t]
Quote == "\""

\* serde_json::to_string of a String of base32 characters
to_json_string(str) == <<Quote>> \o str \o <<Quote>>
\* whether serde_json::from_str can read the text as one JSON string
IsJsonString(t) ==
    /\ Len(t) >= 2
    /\ t[1] = Quote /\ t[Len(t)] = Quote
    /\ \A i \in 2..(Len(t) - 1) : t[i] \notin {Quote, "\\"}

\* File::create that keeps what the file holds
create_credentials_file_keep(f, created) ==
    IF created /\ f = Absent THEN FileWith(<<>>) ELSE f
\* create_credentials_file: the file after File::create (truncated when it
\* succeeds, untouched when the folder or the file cannot be created)
create_credentials_file(f, created) ==
    IF created THEN FileWith(<<>>) ELSE f

\* write_all on the fresh handle: the first `written` characters reach the
\* file; the write failed unless all did
write_all(str, written) == FileWith(SubSeq(str, 1, written))

\* connect, lines 67-97: the credentials read from the file.
\* Ok(None): none found; Ok(Some(text)): found; Fail: the text does not
\* parse.
read_credentials(f, readable, parses) ==
    IF ~f.exists \/ ~readable THEN Ok(None)
    ELSE IF f.content = <<>> THEN Ok(None)
    ELSE IF IsJsonString(f.content) /\ parses THEN Ok(Some(f.content))
    ELSE Fail("parse")

\* connect, lines 99-115: the connections attempted and the keypair
\* returned, given whether the first and the second safe.connect succeed
connect_with(creds, first, second) ==
    IF first THEN [attempts |-> <<creds>>, ret |-> Ok(creds)]
    ELSE IF creds # None
    THEN [attempts |-> <<creds, None>>,
          ret |-> IF second THEN Ok(None) ELSE Fail("read-only")]
    ELSE [attempts |-> <<creds>>, ret |-> Fail("connect")]
connect(f, readable, parses, first, second) ==
    IF ~read_credentials(f, readable, parses).ok
    THEN [attempts |-> <<>>, ret |-> Fail("parse")]
    ELSE connect_with(read_credentials(f, readable, parses).val, first, second)

-----------------------------------------------------------------------------
(* The values the model draws from. *)


\* bytes of 'a' and of the two-byte character U+00E9
StrAlphabet == {97, 195, 169}
Strings ==
    {s \in UNION {[1..k -> StrAlphabet] : k \in 0..MaxStrLen} : ValidUtf8(s)}
ShortStrings == {s \in Strings : Len(s) <= 1}

Addrs ==
    {SocketAddrV4(<<127, 0, 0, 1>>, 5000),
     SocketAddrV4(<<10, 0, 0, 2>>, 443),
     SocketAddrV6(<<32, 1, 13, 184, 0, 0, 0, 0, 0, 0, 0, 0, 0, 0, 0, 1>>, 12000)}
Configs == {S \in SUBSET Addrs : Cardinality(S) <= MaxAddrs}
KeyBlobs == {<<>>, <<7, 255, 0>>}
IpcErrors ==
    {IpcError(IpcErrorTags[i]) : i \in 1..5}
        \cup {Unexpected(s) : s \in ShortStrings}
ReqIds == {u32_zero, U32(258, 772), u32_max_value}

IpcResps ==
    {IpcRespAuth(Ok(AuthGranted(k, c))) : k \in KeyBlobs, c \in Configs}
        \cup {IpcRespAuth(Fail(e)) : e \in IpcErrors}
        \cup {IpcRespUnregistered(Ok(c)) : c \in Configs}
        \cup {IpcRespUnregistered(Fail(e)) : e \in IpcErrors}
Messages ==
    {Req(i, IpcReqAuth(AuthReq(a, n, v))) :
        i \in ReqIds, a \in Strings, n \in ShortStrings, v \in ShortStrings}
        \cup {Resp(i, p) : i \in ReqIds, p \in IpcResps}
        \cup {Revoked(a) : a \in Strings}
        \cup {Err(e) : e \in IpcErrors}

\* first characters tried in place of the prefix of an encoded message
PrefixChars == {"B", "z", "a", "A", "7", "c", "!"}
\* strings no encoder produced
GarbageTexts ==
    {<<>>,
     <<"x", "!", "!", "!", "i", "n", "v", "a", "l", "i", "d">>,
     <<"b">>, <<"B">>, <<"z">>,
     <<"b", "A">>, <<"b", "A", "A">>, <<"b", "A", "B">>,
     <<"b", "!", "!">>, <<"b", "a", "a", "a", "a">>,
     <<"B", "A", "A", "A", "A", "A", "A", "A", "A">>}

-----------------------------------------------------------------------------
(* Spec: the codec, the classifier and the request builder, applied to     *)
(* every message and input of the sets above.                              *)

Calls == {"c1", "c2"}
AuthInit == calls = [c \in Calls |-> IdleCall]
CliInit ==
    /\ file = Absent
    /\ cliPc = "idle"
    /\ lastDone = None

CodecInit ==
    /\ phase = "idle"
    /\ msg = NoMsg
    /\ built = FALSE
    /\ rnd = None
    /\ text = <<>>
    /\ inputKind = "none"
    /\ result = None
    /\ outcome = None

Init == CodecInit /\ AuthInit /\ CliInit

\* a message arrives from elsewhere
PickMsg(m) ==
    /\ phase = "idle"
    /\ phase' = "have"
    /\ msg' = m
    /\ UNCHANGED <<built, rnd, text, inputKind, result, outcome>>
    /\ UNCHANGED <<calls, file, cliPc, lastDone>>

\* IpcMsg::new_auth_req(app_id, app_name, app_vendor)
NewAuthReq(r, app_id, app_name, app_vendor) ==
    /\ phase = "idle"
    /\ phase' = "have"
    /\ rnd' = r
    /\ built' = TRUE
    /\ msg' = new_auth_req(r, app_id, app_name, app_vendor)
    /\ UNCHANGED <<text, inputKind, result, outcome>>
    /\ UNCHANGED <<calls, file, cliPc, lastDone>>

\* encode_msg(&msg)
Encode(order) ==
    /\ phase = "have"
    /\ phase' = "input"
    /\ text' = encode_msg(msg, order)
    /\ inputKind' = "encoded"
    /\ UNCHANGED <<msg, built, rnd, result, outcome>>
    /\ UNCHANGED <<calls, file, cliPc, lastDone>>

\* the first n characters of an encoded message
Truncate(n) ==
    /\ phase = "input" /\ inputKind = "encoded"
    /\ text' = SubSeq(text, 1, n)
    /\ inputKind' = "truncated"
    /\ UNCHANGED <<phase, msg, built, rnd, result, outcome>>
    /\ UNCHANGED <<calls, file, cliPc, lastDone>>

\* an encoded message with another first character
Reprefix(c) ==
    /\ phase = "input" /\ inputKind = "encoded"
    /\ text' = <<c>> \o Tail(text)
    /\ inputKind' = "reprefixed"
    /\ UNCHANGED <<phase, msg, built, rnd, result, outcome>>
    /\ UNCHANGED <<calls, file, cliPc, lastDone>>

\* a string that is no encoding
Garbage(t) ==
    /\ phase = "idle"
    /\ phase' = "input"
    /\ text' = t
    /\ inputKind' = "garbage"
    /\ UNCHANGED <<msg, built, rnd, result, outcome>>
    /\ UNCHANGED <<calls, file, cliPc, lastDone>>

\* decode_msg(&text)
Decode ==
    /\ phase = "input"
    /\ phase' = "decoded"
    /\ result' = decode_msg(text)
    /\ UNCHANGED <<msg, built, rnd, text, inputKind, outcome>>
    /\ UNCHANGED <<calls, file, cliPc, lastDone>>

\* decode_auth_response_ipc_msg on the message decoded
Classify ==
    /\ phase = "decoded" /\ result.ok
    /\ phase' = "classified"
    /\ outcome' = decode_auth_response_ipc_msg(result.val)
    /\ UNCHANGED <<msg, built, rnd, text, inputKind, result>>
    /\ UNCHANGED <<calls, file, cliPc, lastDone>>

Next ==
    \/ \E m \in Messages : PickMsg(m)
    \/ \E r \in gen_range(u32_zero, u32_max_value) :
          \E a \in ShortStrings : NewAuthReq(r, a, <<97>>, <<>>)
    \/ \E o \in Orders(ConfigOf(msg)) : Encode(o)
    \/ \E n \in 0..(Len(text) - 1) : Truncate(n)
    \/ \E c \in PrefixChars : Reprefix(c)
    \/ \E t \in GarbageTexts : Garbage(t)
    \/ Decode
    \/ Classify

Spec == Init /\ [][Next]_vars

-----------------------------------------------------------------------------
(* SpecAuth: two concurrent calls of Safe::auth_app for the CLI            *)
(* application.  The transport is the environment: it answers each call    *)
(* with an error or with any reply string, among them the replies meant    *)
(* for the other call.                                                     *)

APP_ID == <<97, 97>>
APP_NAME == <<97>>
APP_VENDOR == <<>>

\* payloads an authenticator may answer with
ReplyPayloads ==
    {IpcRespAuth(Ok(AuthGranted(<<7, 255, 0>>, {}))),
     IpcRespAuth(Fail(IpcError("AuthDenied"))),
     IpcRespUnregistered(Ok({})),
     IpcRespUnregistered(Fail(IpcError("UnknownApp")))}
\* the request ids in flight
IdsInFlight ==
    {calls[c].request.req_id : c \in {d \in Calls : calls[d].pc # "idle"}}
\* what send_app_auth_req may return to a call
TransportOutcomes ==
    {Fail(TransportError)}
        \cup {Ok(encode_msg(Resp(i, p), <<>>)) :
                 i \in IdsInFlight, p \in ReplyPayloads}
        \cup {Ok(calls[c].auth_req_str) :
                 c \in {d \in Calls : calls[d].pc # "idle"}}
        \cup {Ok(encode_msg(Revoked(APP_ID), <<>>)),
              Ok(encode_msg(Err(IpcError("InvalidMsg")), <<>>)),
              Ok(<<"x", "!", "!", "!", "i", "n", "v", "a", "l", "i", "d">>),
              Ok(<<>>)}

\* auth_app up to its suspension in send_app_auth_req
AuthAppCall(c, r) ==
    /\ calls[c].pc = "idle"
    /\ calls' = [calls EXCEPT
                    ![c] = auth_app_send(@, r, APP_ID, APP_NAME, APP_VENDOR)]
    /\ UNCHANGED codecVars
    /\ UNCHANGED cliVars

\* send_app_auth_req returns what send_authd_request answered
TransportReturn(c, out) ==
    /\ calls[c].pc = "awaiting"
    /\ calls' = [calls EXCEPT ![c].pc = "returned", ![c].transport = out]
    /\ UNCHANGED codecVars
    /\ UNCHANGED cliVars

\* auth_app from the answer of send_app_auth_req to its return
AuthAppResume(c) ==
    /\ calls[c].pc = "returned"
    /\ calls' = [calls EXCEPT ![c] = auth_app_resume(@)]
    /\ UNCHANGED codecVars
    /\ UNCHANGED cliVars

NextAuth ==
    \/ \E c \in Calls : \E r \in gen_range(u32_zero, u32_max_value) :
          AuthAppCall(c, r)
    \/ \E c \in Calls : \E out \in TransportOutcomes : TransportReturn(c, out)
    \/ \E c \in Calls : AuthAppResume(c)

SpecAuth == Init /\ [][NextAuth]_vars

-----------------------------------------------------------------------------
(* SpecCli: the commands of the CLI over the credentials file.  One        *)
(* authorise_cli is in flight at a time; while it waits for the            *)
(* authenticator, clear_credentials and connect may run from another       *)
(* console.                                                                *)

\* what send_app_auth_req may return to the auth_app of authorise_cli
CliTransportOutcomes ==
    {Fail(TransportError),
     Ok(encode_msg(Resp(U32(0, 1),
                        IpcRespAuth(Ok(AuthGranted(<<7, 255, 0>>, {})))),
                   <<>>)),
     Ok(encode_msg(Resp(U32(0, 1), IpcRespAuth(Fail(IpcError("AuthDenied")))),
                   <<>>)),
     Ok(encode_msg(Revoked(APP_ID), <<>>)),
     Ok(<<"x", "!", "!", "!", "i", "n", "v", "a", "l", "i", "d">>)}

Done(cmd, ret) == [cmd |-> cmd, ret |-> ret]
\* the command a connect came after
Prev == IF lastDone = None THEN None
        ELSE [cmd |-> lastDone.cmd, ret |-> lastDone.ret]

\* authorise_cli, lines 22-28: create the file, then wait in auth_app
AuthoriseCliStart(created) ==
    /\ cliPc = "idle"
    /\ file' = create_credentials_file(file, created)
    /\ cliPc' = IF created THEN "awaiting" ELSE "idle"
    /\ lastDone' = IF created THEN lastDone
                   ELSE Done("authorise_cli", Fail("create"))
    /\ UNCHANGED codecVars
    /\ UNCHANGED calls

\* authorise_cli, lines 28-46: auth_app returned res; `written` characters
\* of the serialised credentials reach the file
AuthoriseCliResume(res, written) ==
    /\ cliPc = "awaiting"
    /\ cliPc' = "idle"
    /\ IF ~res.ok
       THEN /\ file' = file
            /\ lastDone' = Done("authorise_cli", Fail("request"))
       ELSE /\ file' = write_all(to_json_string(res.val), written)
            /\ lastDone' =
                 Done("authorise_cli",
                      IF written = Len(to_json_string(res.val))
                      THEN Ok(<<>>) ELSE Fail("write"))
    /\ UNCHANGED codecVars
    /\ UNCHANGED calls

\* clear_credentials
ClearCredentials(created) ==
    /\ file' = create_credentials_file(file, created)
    /\ lastDone' = Done("clear_credentials",
                        IF created THEN Ok(<<>>) ELSE Fail("create"))
    /\ UNCHANGED cliPc
    /\ UNCHANGED codecVars
    /\ UNCHANGED calls

\* connect
Connect(readable, parses, first, second) ==
    /\ lastDone' =
         [cmd |-> "connect",
          ret |-> connect(file, readable, parses, first, second).ret,
          attempts |-> connect(file, readable, parses, first, second).attempts,
          prev |-> Prev]
    /\ UNCHANGED <<file, cliPc>>
    /\ UNCHANGED codecVars
    /\ UNCHANGED calls

\* what auth_app may return to authorise_cli
CliAuthAppResults == {auth_app_result(out) : out \in CliTransportOutcomes}
\* the characters write_all may get to the file before it returns
WriteLens(res) ==
    IF res.ok THEN 0..Len(to_json_string(res.val)) ELSE {0}

NextCli ==
    \/ \E created \in BOOLEAN : AuthoriseCliStart(created)
    \/ \E res \in CliAuthAppResults : \E written \in WriteLens(res) :
          AuthoriseCliResume(res, written)
    \/ \E created \in BOOLEAN : ClearCredentials(created)
    \/ \E readable, parses, first, second \in BOOLEAN :
          Connect(readable, parses, first, second)

SpecCli == Init /\ [][NextCli]_vars

-----------------------------------------------------------------------------
(* Properties of the codec, the classifier and the request builder.        *)

Decoded == phase \in {"decoded", "classified"}
IsGranted(m) ==
    m.type = "Resp" /\ m.response.kind = "Auth" /\ m.response.res.ok
IsUnregisteredGranted(m) ==
    m.type = "Resp" /\ m.response.kind = "Unregistered" /\ m.response.res.ok
IsDenied(m) == m.type = "Resp" /\ ~m.response.res.ok

\* C1: decoding the encoding of a message succeeds and returns a message
\* equal to the one encoded, whichever variant and payload it has.
C1_RoundTrip == (Decoded /\ inputKind = "encoded") => result = Ok(msg)
C1_Witness ==
    /\ phase = "decoded" /\ inputKind = "encoded"
    /\ IsGranted(msg) /\ Cardinality(ConfigOf(msg)) = 2
    /\ msg.req_id = u32_max_value
    /\ result = Ok(msg)

\* C2: decode_msg of the empty string fails with InvalidMsg, and every
\* failure on a non-empty string is EncodeDecodeError.
C2_EmptyOnlyInvalidMsg ==
    Decoded =>
        /\ text = <<>> => result = Fail(InvalidMsg)
        /\ (text # <<>> /\ ~result.ok) => result.err = EncodeDecodeError
C2_Witness ==
    /\ phase = "decoded" /\ inputKind = "garbage"
    /\ text = <<>> /\ result = Fail(InvalidMsg)

\* C3: a non-empty string that starts with neither 'b' nor 'B' fails with
\* EncodeDecodeError even when the rest is a valid payload, and a valid
\* payload decodes to its message behind 'b' as behind 'B'.
C3_PrefixDispatch ==
    (Decoded /\ text # <<>>) =>
        /\ text[1] \notin {"b", "B"} => result = Fail(EncodeDecodeError)
        /\ (text[1] \in {"b", "B"} /\ inputKind \in {"encoded", "reprefixed"})
              => result = Ok(msg)
C3_Witness ==
    /\ phase = "decoded" /\ inputKind = "reprefixed"
    /\ text[1] = "z" /\ Len(text) > 1
    /\ Base32Decode(Tail(text)).ok
    /\ result = Fail(EncodeDecodeError)

\* C4 as claimed: every proper prefix of an encoding fails with
\* EncodeDecodeError.
C4_Original ==
    (Decoded /\ inputKind = "truncated") => result = Fail(EncodeDecodeError)
\* C4 as amended: the prefix of length 0 fails with InvalidMsg and every
\* other proper prefix of an encoding fails with EncodeDecodeError; none
\* decodes to a message.
C4_Truncated ==
    (Decoded /\ inputKind = "truncated") =>
        IF text = <<>> THEN result = Fail(InvalidMsg)
        ELSE result = Fail(EncodeDecodeError)
C4_Witness ==
    /\ phase = "decoded" /\ inputKind = "truncated"
    /\ Len(text) > 1 /\ Base32Decode(Tail(text)).ok
    /\ result = Fail(EncodeDecodeError)

\* C5: the classifier answers Registered(bundle) exactly for a granted Auth
\* response (bundle unchanged), Unregistered(config) exactly for a granted
\* Unregistered response, a failure carrying the reason for both denials,
\* and a failure carrying the rendering of the message for every other
\* message.
C5_Classifier ==
    phase = "classified" =>
        /\ IsGranted(result.val)
              <=> (outcome.ok /\ outcome.val.type = "Registered")
        /\ IsGranted(result.val)
              => outcome = Ok(Registered(result.val.response.res.val))
        /\ IsUnregisteredGranted(result.val)
              <=> (outcome.ok /\ outcome.val.type = "Unregistered")
        /\ IsUnregisteredGranted(result.val)
              => outcome = Ok(Unregistered(result.val.response.res.val))
        /\ IsDenied(result.val)
              => outcome = Fail(AuthError(Dbg(result.val.response.res.err)))
        /\ result.val.type # "Resp"
              => outcome = Fail(AuthError(Dbg(result.val)))
C5_Witness ==
    /\ phase = "classified"
    /\ IsUnregisteredGranted(result.val)
    /\ outcome = Ok(Unregistered(result.val.response.res.val))
    /\ Cardinality(outcome.val.config) = 2

\* C8: every request id the builder assigns is the random value plus one,
\* without wrap-around: it is non-zero and at most u32::MAX.
C8_ReqIdNonZero ==
    built =>
        /\ msg.req_id # u32_zero
        /\ U32Lt(rnd, msg.req_id)
        /\ ~U32Lt(u32_max_value, msg.req_id)
C8_Witness ==
    built /\ rnd = U32(65535, 65534) /\ msg.req_id = u32_max_value

-----------------------------------------------------------------------------
(* Properties of auth_app. *)

\* the reply decodes to a granted Auth response
ClassifiesRegistered(reply) ==
    decode_msg(reply).ok /\ IsGranted(decode_msg(reply).val)
\* the reply decodes to a response to another request than `request`
ForeignResponse(reply, request) ==
    /\ decode_msg(reply).ok
    /\ decode_msg(reply).val.type = "Resp"
    /\ decode_msg(reply).val.req_id # request.req_id

\* C6 as claimed: auth_app returns a credential string only when the reply
\* classifies as Registered, and then the reply unchanged; a denied or an
\* unregistered response makes it fail.
C6_Original ==
    \A c \in Calls :
        (calls[c].pc = "done" /\ calls[c].ret.ok) =>
            /\ calls[c].ret.val = calls[c].transport.val
            /\ ClassifiesRegistered(calls[c].transport.val)

\* C7 as claimed: auth_app fails whenever the reply is a response whose
\* req_id is not the req_id of the request this call sent.
C7_Original ==
    \A c \in Calls :
        (/\ calls[c].pc = "done"
         /\ calls[c].transport.ok
         /\ ForeignResponse(calls[c].transport.val, calls[c].request))
            => ~calls[c].ret.ok

\* C9: a call of auth_app invokes the transport at most once, with the
\* encoding of the request it built; when the transport fails the call
\* ends with that failure and decodes nothing; when the reply is decoded
\* (whatever comes of it) the transport is not invoked again.
C9_NoRetry ==
    \A c \in Calls :
        /\ calls[c].sends <= 1 /\ calls[c].decodes <= 1
        /\ calls[c].pc = "idle" <=> calls[c].sends = 0
        /\ calls[c].sends = 1 =>
              /\ calls[c].request.type = "Req"
              /\ calls[c].auth_req_str = encode_msg(calls[c].request, <<>>)
        /\ calls[c].pc # "done" => calls[c].decodes = 0
        /\ (calls[c].pc = "done" /\ ~calls[c].transport.ok) =>
              /\ calls[c].ret = Fail(calls[c].transport.err)
              /\ calls[c].decodes = 0
        /\ (calls[c].pc = "done" /\ calls[c].transport.ok) =>
              calls[c].decodes = 1
C9_Witness ==
    /\ calls["c1"].pc = "done" /\ ~calls["c1"].transport.ok
    /\ calls["c1"].sends = 1 /\ ~calls["c1"].ret.ok
    /\ calls["c2"].pc = "done" /\ calls["c2"].transport.ok
    /\ calls["c2"].sends = 1 /\ ~calls["c2"].ret.ok

-----------------------------------------------------------------------------
(* Properties of the CLI commands. *)

Emptied == file = FileWith(<<>>)
\* connect found no credentials: one connection, read-only, no keypair
ReadOnlyConnect(d) ==
    d.attempts = <<None>> /\ d.ret \in {Ok(None), Fail("connect")}

====
